---- MODULE Spec2Model ----
(***************************************************************************)
(* Model of app/utils.py and app/main.py: DocumentService.create_documents *)
(* (the legal-document segmenter) and QdrantService (connect, load, query  *)
(* and the citation assembly).                                             *)
(*                                                                         *)
(* Text is a sequence of one-character strings.  An Optional[...] value of *)
(* the program is a sequence of length at most one: None is <<>> and a     *)
(* present value v is <<v>>.                                               *)
(***************************************************************************)
EXTENDS Integers, Sequences, FiniteSets, TLC

\* ------------------------------------------------------------------ bounds

\* Largest number of catalogue lines an input text is made of.
MaxLines == 3

\* Largest number of retrieval results the query engine hands back.
MaxResults == 2

\* Largest top-k a QdrantService is constructed with.
MaxK == 3

\* Largest number of calls of create_documents made on one document.
MaxCalls == 2

\* Largest number of catalogue lines of a document that is segmented more
\* than once, or served by the endpoint.
MaxCallLines == 2

\* ------------------------------------------------------- text primitives

Chars(s) == [i \in 1..Len(s) |-> SubSeq(s, i, i)]

None == <<>>
Some(v) == <<v>>

NL == "\n"

\* str.isspace for the characters of the model's alphabet.
IsSpace(c) == c \in {" ", "\t", "\n"}

\* The regex class \d.
IsDigit(c) == c \in {"0", "1", "2", "3", "4", "5", "6", "7", "8", "9"}

Uppers == Chars("ABCDEFGHIJKLMNOPQRSTUVWXYZ")
Lowers == Chars("abcdefghijklmnopqrstuvwxyz")

\* Case folding of one character, as re.IGNORECASE compares ASCII letters.
Lower(c) ==
    IF \E i \in 1..Len(Uppers) : Uppers[i] = c
    THEN Lowers[CHOOSE i \in 1..Len(Uppers) : Uppers[i] = c]
    ELSE c

RECURSIVE RStrip(_)
\* str.rstrip()
RStrip(s) ==
    IF s = <<>> THEN s
    ELSE IF IsSpace(s[Len(s)]) THEN RStrip(SubSeq(s, 1, Len(s) - 1))
    ELSE s

RECURSIVE LStrip(_)
\* str.lstrip()
LStrip(s) ==
    IF s = <<>> THEN s
    ELSE IF IsSpace(s[1]) THEN LStrip(Tail(s))
    ELSE s

\* str.strip()
Strip(s) == LStrip(RStrip(s))

RECURSIVE RStripNL(_)
\* str.rstrip("\n")
RStripNL(s) ==
    IF s = <<>> THEN s
    ELSE IF s[Len(s)] = NL THEN RStripNL(SubSeq(s, 1, Len(s) - 1))
    ELSE s

RECURSIVE JoinNL(_)
\* "\n".join(ls)
JoinNL(ls) ==
    IF ls = <<>> THEN <<>>
    ELSE IF Len(ls) = 1 THEN ls[1]
    ELSE ls[1] \o <<NL>> \o JoinNL(Tail(ls))

\* Position of the first line break of t, 0 when there is none.
FirstNL(t) ==
    IF \E p \in 1..Len(t) : t[p] = NL
    THEN CHOOSE p \in 1..Len(t) : t[p] = NL /\ \A q \in 1..(p - 1) : t[q] # NL
    ELSE 0

RECURSIVE SplitLines(_)
\* str.splitlines(): a final line break opens no empty last line.
SplitLines(t) ==
    IF t = <<>> THEN <<>>
    ELSE IF FirstNL(t) = 0 THEN <<t>>
    ELSE <<SubSeq(t, 1, FirstNL(t) - 1)>>
             \o SplitLines(SubSeq(t, FirstNL(t) + 1, Len(t)))

\* s[p:].startswith(pat), p counted from 1.
StartsWithAt(s, p, pat) ==
    /\ p + Len(pat) - 1 <= Len(s)
    /\ \A i \in 1..Len(pat) : s[p + i - 1] = pat[i]

\* str.startswith
StartsWith(s, pat) == StartsWithAt(s, 1, pat)

\* ------------------------------------------------------------- patterns

RECURSIVE DigitRun(_, _)
\* Length of the match of \d* at position p.
DigitRun(s, p) ==
    IF p <= Len(s) /\ IsDigit(s[p]) THEN 1 + DigitRun(s, p + 1) ELSE 0

RECURSIVE SpaceRun(_, _)
\* Length of the match of \s* at position p.
SpaceRun(s, p) ==
    IF p <= Len(s) /\ IsSpace(s[p]) THEN 1 + SpaceRun(s, p + 1) ELSE 0

RECURSIVE DottedTail(_, _)
\* Last position of the match of (?:\.\d+)* that starts after position e.
DottedTail(s, e) ==
    IF e + 1 <= Len(s) /\ s[e + 1] = "." /\ DigitRun(s, e + 2) > 0
    THEN DottedTail(s, e + 1 + DigitRun(s, e + 2))
    ELSE e

\* Last position of the match of \d+(?:\.\d+)* at position p, p - 1 when it
\* does not match.  Both patterns continue with \. and a character that is
\* no digit, so only the longest match can be continued.
DottedNumberEnd(s, p) ==
    IF DigitRun(s, p) = 0 THEN p - 1
    ELSE DottedTail(s, p - 1 + DigitRun(s, p))

NoMatch == <<>>

\* heading_re.match(s):  ^\*\*(\d+(?:\.\d+)*)\.\*\*\s+\*\*(.*?)\*\*\s*$
\* The lazy title ends at the only ** that is followed by white space alone.
heading_re(s) ==
    LET e == DottedNumberEnd(s, 3)
        w == SpaceRun(s, e + 4)
        q == e + 4 + w
        z == Len(RStrip(s))
    IN  IF /\ StartsWith(s, <<"*", "*">>)
           /\ e >= 3
           /\ StartsWithAt(s, e + 1, <<".", "*", "*">>)
           /\ w >= 1
           /\ StartsWithAt(s, q, <<"*", "*">>)
           /\ z - 1 >= q + 2
           /\ StartsWithAt(s, z - 1, <<"*", "*">>)
           /\ \A p \in (q + 2)..(z - 2) : s[p] # NL
        THEN Some([g1 |-> SubSeq(s, 3, e), g2 |-> SubSeq(s, q + 2, z - 2)])
        ELSE NoMatch

\* number_re.match(s):  ^(\d+(?:\.\d+)*)\.\s+(.*\S)?\s*$
\* \s+ takes all the white space after the period, and group 2 runs from
\* the first to the last character that is no white space (None if none).
number_re(s) ==
    LET e == DottedNumberEnd(s, 1)
        rest == SubSeq(s, e + 2, Len(s))
    IN  IF /\ e >= 1
           /\ StartsWithAt(s, e + 1, <<".">>)
           /\ SpaceRun(s, e + 2) >= 1
           /\ \A p \in 1..Len(Strip(rest)) : Strip(rest)[p] # NL
        THEN Some([g1 |-> SubSeq(s, 1, e),
                   g2 |-> IF Strip(rest) = <<>> THEN None ELSE Some(Strip(rest))])
        ELSE NoMatch

citations_plain == Chars("citations:")
citations_bold == Chars("**citations:**")

\* The text with every character case-folded.
LowerAll(t) == [i \in 1..Len(t) |-> Lower(t[i])]

\* The pattern (\*\*Citations:\*\*|Citations:) matches at position p of the
\* case-folded text low (re.IGNORECASE).
MarkerAt(low, p) ==
    StartsWithAt(low, p, citations_bold) \/ StartsWithAt(low, p, citations_plain)

\* The scan of re.search from position p on: the first position at which
\* the pattern matches, 0 when there is none.
SearchFrom(low, p) ==
    LET hits == {q \in p..Len(low) : MarkerAt(low, q)}
    IN  IF hits = {} THEN 0
        ELSE CHOOSE q \in hits : \A r \in hits : q <= r

\* re.search(...): the start of the leftmost match, counted from 1; 0 when
\* the pattern matches nowhere.
SearchCitations(t) == SearchFrom(LowerAll(t), 1)

\* The cut of line 85 one character late: md_text[: m.start() + 1].
CutAt_OneLate(t, m) == IF m = 0 THEN t ELSE SubSeq(t, 1, m)

\* content_text = md_text[: m.start()] if m else md_text
CutAt(t, m) == IF m = 0 THEN t ELSE SubSeq(t, 1, m - 1)

\* Lines 84-85
CutCitations(t) == CutAt(t, SearchCitations(t))

\* ------------------------------------------------------------ the input

\* The lines an input text is made of: headings (one with an empty title),
\* numbered lines (one with no text of its own), a continuation line with
\* white space around it, a blank line, and lines holding the Citations
\* marker (bare, and wrapped in ** after the start of a numbered line).
Catalogue ==
    { Chars("**4.1.** **T**"),
      Chars("**5.** **U**"),
      Chars("**4.1.** ****"),
      Chars("4.1.2. a"),
      Chars("4.1. b "),
      Chars("4.2. c"),
      Chars("4.10. d"),
      Chars("4.1. "),
      Chars(" x "),
      Chars(""),
      Chars("Citations:"),
      Chars("9. q **CITATIONS:** r") }

ScenarioA ==
    JoinNL(<< Chars("**4.1.** **Trials of the Crown**"),
              Chars("4.1.1. A trial is convened by the Crown."),
              Chars("continued detail."),
              Chars("4.1.2. The accused may call one witness.") >>)

ScenarioB ==
    JoinNL(<< Chars("5. Tax evasion is punishable by banishment."),
              Chars("**Citations:**"),
              Chars("Some footnote.") >>)

ScenarioD == Chars("General preamble text with no structure.")

\* What pymupdf4llm.to_markdown may hand back: up to MaxLines catalogue lines
\* joined by line breaks, or one of the scenario texts.
Inputs ==
    { JoinNL(ls) : ls \in UNION { [1..n -> Catalogue] : n \in 0..MaxLines } }
        \cup { ScenarioA, ScenarioB, ScenarioD }

\* The texts of at most MaxCallLines catalogue lines, and the scenario texts.
CallInputs ==
    { JoinNL(ls) : ls \in UNION { [1..n -> Catalogue] : n \in 0..MaxCallLines } }
        \cup { ScenarioA, ScenarioB, ScenarioD }

\* ------------------------------------------------ DocumentService: state

VARIABLES
    md_text,                  \* the markdown text of the document
    content_text,             \* md_text up to the Citations marker
    lines,                    \* content_text.splitlines(), the loop's sequence
    idx,                      \* position of the loop in lines
    current_title_prefix,     \* Optional[str]
    current_title_text,       \* Optional[str]
    current_section_number,   \* Optional[str]
    current_section_title,    \* Optional[str]
    current_lines,            \* List[str]
    docs,                     \* List[LIDocument]
    pc                        \* position in create_documents

dvars == << md_text, content_text, lines, idx, current_title_prefix,
            current_title_text, current_section_number,
            current_section_title, current_lines, docs, pc >>

\* The scan's local variables as one value.
Locals ==
    [ current_title_prefix   |-> current_title_prefix,
      current_title_text     |-> current_title_text,
      current_section_number |-> current_section_number,
      current_section_title  |-> current_section_title,
      current_lines          |-> current_lines,
      docs                   |-> docs ]

\* Lines 90-97 with docs kept from the call before (a list that outlives
\* the call, as a default argument or a class attribute would).
InitialLocals_KeepDocs ==
    [ current_title_prefix   |-> None,
      current_title_text     |-> None,
      current_section_number |-> None,
      current_section_title  |-> None,
      current_lines          |-> <<>>,
      docs                   |-> docs ]

\* The locals as lines 90-97 set them.
InitialLocals ==
    [ current_title_prefix   |-> None,
      current_title_text     |-> None,
      current_section_number |-> None,
      current_section_title  |-> None,
      current_lines          |-> <<>>,
      docs                   |-> <<>> ]

SetLocals(s) ==
    /\ current_title_prefix' = s.current_title_prefix
    /\ current_title_text' = s.current_title_text
    /\ current_section_number' = s.current_section_number
    /\ current_section_title' = s.current_section_title
    /\ current_lines' = s.current_lines
    /\ docs' = s.docs

\* f"Law {current_section_number}"
LawLabel(number) == Chars("Law ") \o number

\* x or None, for an Optional[str] x: the empty string is falsy.
OrNone(x) == IF x = None \/ x = Some(<<>>) THEN None ELSE x

\* LIDocument(metadata={"Section": ..., "Title": ...}, text=body_text)
SectionDoc(number, title, body_text) ==
    [ metadata |-> [Section |-> LawLabel(number), Title |-> OrNone(title)],
      text |-> body_text ]

\* "\n".join([ln.rstrip() for ln in current_lines]).strip()
BodyText(ls) == Strip(JoinNL([j \in 1..Len(ls) |-> RStrip(ls[j])]))

ClearSection(s) ==
    [s EXCEPT !.current_section_number = None,
              !.current_section_title = None,
              !.current_lines = <<>>]

\* finalize_current without the test of lines 104-109: a section with an
\* empty body is emitted like any other.
finalize_current_KeepEmpty(s) ==
    IF s.current_section_number = None THEN s
    ELSE ClearSection(
           [s EXCEPT !.docs = Append(s.docs,
                SectionDoc(s.current_section_number[1],
                           s.current_section_title,
                           BodyText(s.current_lines)))])

\* finalize_current with docs.insert(0, ...) for the append of line 110: the
\* newest document comes first.
finalize_current_Prepend(s) ==
    IF s.current_section_number = None THEN s
    ELSE IF BodyText(s.current_lines) = <<>> THEN ClearSection(s)
    ELSE ClearSection(
           [s EXCEPT !.docs = <<SectionDoc(s.current_section_number[1],
                                           s.current_section_title,
                                           BodyText(s.current_lines))>> \o s.docs])

finalize_current(s) ==
    IF s.current_section_number = None THEN s
    ELSE IF BodyText(s.current_lines) = <<>> THEN ClearSection(s)
    ELSE ClearSection(
           [s EXCEPT !.docs = Append(s.docs,
                SectionDoc(s.current_section_number[1],
                           s.current_section_title,
                           BodyText(s.current_lines)))])

\* Lines 126-133 without the call of line 128: the heading replaces the
\* title context and the open section stays open.
OnHeading_NoFinalize(s, line) ==
    LET mh == heading_re(Strip(line))[1]
    IN  [s EXCEPT !.current_title_prefix = Some(mh.g1),
                  !.current_title_text = Some(Strip(mh.g2))]

\* Lines 126-133: a bold heading line updates the title context.
OnHeading(s, line) ==
    LET mh == heading_re(Strip(line))[1]
    IN  [finalize_current(s) EXCEPT !.current_title_prefix = Some(mh.g1),
                                    !.current_title_text = Some(Strip(mh.g2))]

\* The test of line 146 without the period: sec_num.startswith(prefix).
PrefixMatches_NoDot(sec_num, prefix) ==
    sec_num = prefix \/ StartsWith(sec_num, prefix)

\* sec_num == current_title_prefix or
\* sec_num.startswith(current_title_prefix + ".")
PrefixMatches(sec_num, prefix) ==
    sec_num = prefix \/ StartsWith(sec_num, prefix \o <<".">>)

\* Lines 143-148 without the test of the prefix: every section under a
\* heading takes its title.
TitleForSection_Always(s, sec_num) == s.current_title_text

\* Lines 143-148: the title the section takes from the heading context.
TitleForSection(s, sec_num) ==
    IF /\ OrNone(s.current_title_prefix) # None
       /\ PrefixMatches(sec_num, s.current_title_prefix[1])
    THEN s.current_title_text
    ELSE None

\* first_line = (mn.group(2) or "").rstrip()
FirstLine(mn) == RStrip(IF OrNone(mn.g2) = None THEN <<>> ELSE mn.g2[1])

\* Lines 135-153: a numbered content line starts a new document.
OnNumbered(s, line) ==
    LET mn == number_re(line)[1]
        f == finalize_current(s)
    IN  [f EXCEPT !.current_section_number = Some(mn.g1),
                  !.current_section_title = TitleForSection(f, mn.g1),
                  !.current_lines = IF FirstLine(mn) # <<>>
                                    THEN <<FirstLine(mn)>> ELSE <<>>]

\* Lines 155-157 with an assignment for the append of line 157: the
\* continuation line replaces what was accumulated.
OnOther_Replace(s, line) ==
    IF s.current_section_number # None
    THEN [s EXCEPT !.current_lines = <<RStrip(line)>>]
    ELSE s

\* Lines 155-157: a continuation line of the open section.
OnOther(s, line) ==
    IF s.current_section_number # None
    THEN [s EXCEPT !.current_lines = Append(s.current_lines, RStrip(line))]
    ELSE s

IsHeadingLine(raw_line) == heading_re(Strip(RStripNL(raw_line))) # NoMatch

IsNumberedLine(raw_line) ==
    ~IsHeadingLine(raw_line) /\ number_re(RStripNL(raw_line)) # NoMatch

\* The body of the loop of lines 123-157.
LoopBody(s, raw_line) ==
    IF IsHeadingLine(raw_line) THEN OnHeading(s, RStripNL(raw_line))
    ELSE IF IsNumberedLine(raw_line) THEN OnNumbered(s, RStripNL(raw_line))
    ELSE OnOther(s, RStripNL(raw_line))

\* The fallback document with the text as it is: text=content_text.
FallbackDoc_NoStrip(content) ==
    [ metadata |-> [Section |-> Chars("Law 1")], text |-> content ]

\* LIDocument(metadata={"Section": "Law 1"}, text=content_text.strip())
FallbackDoc(content) ==
    [ metadata |-> [Section |-> Chars("Law 1")], text |-> Strip(content) ]

\* Lines 162-166 without the fallback document.
FallbackDocs_NoFallback(ds, content) == ds

\* Lines 162-166 without the test of content_text.strip(): the fallback
\* document is stored whenever nothing was parsed.
FallbackDocs_NoStripTest(ds, content) ==
    IF ds = <<>> THEN Append(ds, FallbackDoc(content)) ELSE ds

\* Lines 162-166: what create_documents returns.
FallbackDocs(ds, content) ==
    IF ds = <<>> /\ Strip(content) # <<>>
    THEN Append(ds, FallbackDoc(content))
    ELSE ds

\* ---------------------------------------------- DocumentService: actions

\* Lines 79-81: no text, return [].
ReturnEmpty ==
    /\ pc = "start"
    /\ md_text = <<>>
    /\ pc' = "done"
    /\ UNCHANGED << md_text, content_text, lines, idx, current_title_prefix,
                    current_title_text, current_section_number,
                    current_section_title, current_lines, docs >>

\* Lines 83-97: cut the Citations block, set up the scan.
Preprocess ==
    /\ pc = "start"
    /\ md_text # <<>>
    /\ content_text' = CutCitations(md_text)
    /\ lines' = SplitLines(content_text')
    /\ idx' = 1
    /\ SetLocals(InitialLocals)
    /\ pc' = "scan"
    /\ UNCHANGED md_text

ScanHeading ==
    /\ pc = "scan"
    /\ idx <= Len(lines)
    /\ IsHeadingLine(lines[idx])
    /\ SetLocals(LoopBody(Locals, lines[idx]))
    /\ idx' = idx + 1
    /\ UNCHANGED << md_text, content_text, lines, pc >>

ScanNumbered ==
    /\ pc = "scan"
    /\ idx <= Len(lines)
    /\ IsNumberedLine(lines[idx])
    /\ SetLocals(LoopBody(Locals, lines[idx]))
    /\ idx' = idx + 1
    /\ UNCHANGED << md_text, content_text, lines, pc >>

ScanOther ==
    /\ pc = "scan"
    /\ idx <= Len(lines)
    /\ ~IsHeadingLine(lines[idx])
    /\ ~IsNumberedLine(lines[idx])
    /\ SetLocals(LoopBody(Locals, lines[idx]))
    /\ idx' = idx + 1
    /\ UNCHANGED << md_text, content_text, lines, pc >>

\* Lines 159-160: finalize the last section.
EndOfStream ==
    /\ pc = "scan"
    /\ idx > Len(lines)
    /\ SetLocals(finalize_current(Locals))
    /\ pc' = "fallback"
    /\ UNCHANGED << md_text, content_text, lines, idx >>

\* Lines 162-166: the fallback document, and the return.
Fallback ==
    /\ pc = "fallback"
    /\ docs' = FallbackDocs(docs, content_text)
    /\ pc' = "done"
    /\ UNCHANGED << md_text, content_text, lines, idx, current_title_prefix,
                    current_title_text, current_section_number,
                    current_section_title, current_lines >>

DInit ==
    /\ md_text \in Inputs
    /\ content_text = <<>>
    /\ lines = <<>>
    /\ idx = 1
    /\ current_title_prefix = None
    /\ current_title_text = None
    /\ current_section_number = None
    /\ current_section_title = None
    /\ current_lines = <<>>
    /\ docs = <<>>
    /\ pc = "start"

\* The whole of lines 87-166 on a preprocessed text, as one value.
RECURSIVE ScanFrom(_, _, _)
ScanFrom(s, ls, j) ==
    IF j > Len(ls) THEN s ELSE ScanFrom(LoopBody(s, ls[j]), ls, j + 1)

Segment(content) ==
    FallbackDocs(finalize_current(ScanFrom(InitialLocals, SplitLines(content), 1)).docs,
                 content)

\* create_documents as a function of the markdown text (lines 79-166).
create_documents(text) ==
    IF text = <<>> THEN <<>> ELSE Segment(CutCitations(text))

\* --------------------------------------------------- QdrantService: state

VARIABLES
    k,                \* self.k
    system_prompt,    \* self.system_prompt, Optional[str]
    client,           \* self.client
    storage_context,  \* self.storage_context
    index,            \* self.index: None, or the documents it was built from
    query_engine,     \* self.query_engine
    call,             \* the last call made on the service
    raised,           \* the exception the last call ended with, if any
    resp,             \* the engine's response in the last query
    output            \* the Output the last call returned, if any

qvars == << k, system_prompt, client, storage_context, index, query_engine,
            call, raised, resp, output >>

\* What the earlier calls of create_documents on the document returned.
VARIABLE returned

vars == << dvars, qvars, returned >>

Digits == Chars("0123456789")

RECURSIVE Str(_)
\* str(n) of a natural number
Str(n) ==
    IF n < 10 THEN <<Digits[n + 1]>>
    ELSE Str(n \div 10) \o <<Digits[(n % 10) + 1]>>

\* d.get(key): None when the key is missing
DictGet(d, key) == IF key \in DOMAIN d THEN Some(d[key]) ELSE None

\* getattr(o, name, None)
GetAttr(o, name) == IF name \in DOMAIN o THEN Some(o[name]) ELSE None

\* Truth value of an Optional[str]: None and "" are falsy.
TruthyStr(o) == o # None /\ o[1] # <<>>

\* Truth value of an Optional[int]: None and 0 are falsy.
TruthyInt(o) == o # None /\ o[1] # 0

\* Lines 251-253: the label of a citation.
SourceOf(metadata) ==
    IF TruthyStr(DictGet(metadata, "Section")) THEN metadata["Section"]
    ELSE IF TruthyInt(DictGet(metadata, "page"))
         THEN Chars("Page ") \o Str(metadata["page"])
         ELSE Chars("Unknown")

EmptyDict == <<>>

\* Lines 249-255: the Citation of one source node.
CitationOf(sn) ==
    LET node == IF GetAttr(sn, "node") # None THEN sn.node ELSE sn
        metadata == IF GetAttr(node, "metadata") = None
                       \/ node.metadata = None
                       \/ node.metadata[1] = EmptyDict
                    THEN EmptyDict ELSE node.metadata[1]
        text == IF GetAttr(node, "text") = None THEN <<>> ELSE node.text
    IN  [source |-> SourceOf(metadata), text |-> text]

\* The slice one element long: seq[: n + 1].
Take_OneMore(seq, n) == SubSeq(seq, 1, IF n + 1 < Len(seq) THEN n + 1 ELSE Len(seq))

\* seq[: n]
Take(seq, n) == SubSeq(seq, 1, IF n < Len(seq) THEN n ELSE Len(seq))

\* getattr(resp, "source_nodes", None) or []
SourceNodes(r) ==
    IF GetAttr(r, "source_nodes") = None THEN <<>> ELSE r.source_nodes

\* Lines 246-255: the citations of a response.
Citations(r, topk) ==
    [i \in 1..Len(Take(SourceNodes(r), topk)) |->
        CitationOf(Take(SourceNodes(r), topk)[i])]

\* getattr(resp, "response", None) or str(resp)
ResponseText(r) ==
    IF TruthyStr(GetAttr(r, "response")) THEN r.response ELSE Chars("str(resp)")

\* Line 234: the service has no index.
NotLoaded(ix) == ix = None

\* Line 197 without the test: every list is indexed.
NothingToLoad_Never(ds) == FALSE

\* Line 197: the document list is empty.
NothingToLoad(ds) == ds = <<>>

\* Line 195 without the test: load goes on without a vector store.
NotConnected_Never(sc) == FALSE

\* Line 195: the service has no vector store.
NotConnected(sc) == sc = None

\* Lines 207-231: the engine load prepares.
EngineFor(prompt, docs_, topk) ==
    IF TruthyStr(prompt)
    THEN [kind |-> "RetrieverQueryEngine", index |-> docs_, similarity_top_k |-> topk]
    ELSE [kind |-> "CitationQueryEngine", index |-> docs_, similarity_top_k |-> topk]

\* Lines 238-241: the engine a query runs on.
EngineOf(qe, ix, topk) ==
    IF qe # None THEN qe[1]
    ELSE [kind |-> "CitationQueryEngine", index |-> ix[1], similarity_top_k |-> topk]

\* ------------------------------------- the collaborators' possible values

DocA == SectionDoc(Chars("5"), None, Chars("a"))
DocB == SectionDoc(Chars("6"), Some(Chars("T")), Chars("b"))

\* The document lists load is called with.
DocLists == { <<>>, <<DocA>>, <<DocA, DocB>> }

\* Retrieval results: scored nodes with a Section label, with a page number
\* (2, and 0) and with both; a bare node with metadata None and no text
\* attribute.
SourceNodeShapes ==
    { [node |-> [metadata |-> Some([Section |-> Chars("Law 5")]), text |-> Chars("a")]],
      [node |-> [metadata |-> Some([page |-> 2]), text |-> Chars("b")]],
      [node |-> [metadata |-> Some([page |-> 0]), text |-> Chars("c")]],
      [node |-> [metadata |-> Some([Section |-> Chars("Law 6"), page |-> 2]),
                 text |-> Chars("a")]],
      [metadata |-> None] }

\* What engine.query may return.
Responses ==
    { [response |-> Chars("ans"), source_nodes |-> ns] :
        ns \in UNION { [1..n -> SourceNodeShapes] : n \in 0..MaxResults } }
      \cup { [response |-> <<>>] }

NoCall == [op |-> "none"]

\* No response is held outside of query.
NoResp == [response |-> <<>>]

\* ------------------------------------------------- QdrantService: actions

\* Lines 177-192
Connect ==
    /\ client' = Some("QdrantClient")
    /\ storage_context' = Some("StorageContext")
    /\ call' = [op |-> "connect"]
    /\ raised' = None
    /\ output' = None
    /\ resp' = NoResp
    /\ UNCHANGED << k, system_prompt, index, query_engine >>

\* Lines 195-196: load(ds) before connect raises.
LoadNotConnectedOf(ds) ==
    /\ NotConnected(storage_context)
    /\ call' = [op |-> "load", docs |-> ds]
    /\ raised' = Some("RuntimeError")
    /\ output' = None
    /\ resp' = NoResp
    /\ UNCHANGED << k, system_prompt, client, storage_context, index,
                    query_engine >>

LoadNotConnected == \E ds \in DocLists : LoadNotConnectedOf(ds)

\* Lines 197-198 with the attributes reset before the return: an empty list
\* empties the service.
LoadEmptyOf_Resets(ds) ==
    /\ ~NotConnected(storage_context)
    /\ NothingToLoad(ds)
    /\ call' = [op |-> "load", docs |-> ds]
    /\ index' = None
    /\ query_engine' = None
    /\ raised' = None
    /\ output' = None
    /\ resp' = NoResp
    /\ UNCHANGED << k, system_prompt, client, storage_context >>

\* Lines 197-198: load(ds) with nothing to load.
LoadEmptyOf(ds) ==
    /\ ~NotConnected(storage_context)
    /\ NothingToLoad(ds)
    /\ call' = [op |-> "load", docs |-> ds]
    /\ raised' = None
    /\ output' = None
    /\ resp' = NoResp
    /\ UNCHANGED << k, system_prompt, client, storage_context, index,
                    query_engine >>

LoadEmpty == \E ds \in DocLists : LoadEmptyOf(ds)

\* Lines 200-231: load(ds) builds the index and the engine.
LoadBuildOf(ds) ==
    /\ ~NotConnected(storage_context)
    /\ ~NothingToLoad(ds)
    /\ call' = [op |-> "load", docs |-> ds]
    /\ index' = Some(ds)
    /\ query_engine' = Some(EngineFor(system_prompt, ds, k))
    /\ raised' = None
    /\ output' = None
    /\ resp' = NoResp
    /\ UNCHANGED << k, system_prompt, client, storage_context >>

LoadBuild == \E ds \in DocLists : LoadBuildOf(ds)

\* Line 201: VectorStoreIndex.from_documents raises (the embedding service
\* fails); nothing is assigned.
LoadIndexFailsOf(ds) ==
    /\ ~NotConnected(storage_context)
    /\ ~NothingToLoad(ds)
    /\ call' = [op |-> "load", docs |-> ds]
    /\ raised' = Some("CollaboratorError")
    /\ output' = None
    /\ resp' = NoResp
    /\ UNCHANGED << k, system_prompt, client, storage_context, index,
                    query_engine >>

LoadIndexFails == \E ds \in DocLists : LoadIndexFailsOf(ds)

\* Lines 201-231: the index is assigned, then building the engine raises and
\* self.query_engine keeps its value.
LoadEngineFailsOf(ds) ==
    /\ ~NotConnected(storage_context)
    /\ ~NothingToLoad(ds)
    /\ call' = [op |-> "load", docs |-> ds]
    /\ index' = Some(ds)
    /\ raised' = Some("CollaboratorError")
    /\ output' = None
    /\ resp' = NoResp
    /\ UNCHANGED << k, system_prompt, client, storage_context, query_engine >>

LoadEngineFails == \E ds \in DocLists : LoadEngineFailsOf(ds)

\* Lines 234-235: query without an index raises.
QueryNotLoaded ==
    /\ NotLoaded(index)
    /\ call' = [op |-> "query", query_str |-> Chars("q")]
    /\ raised' = Some("RuntimeError")
    /\ output' = None
    /\ resp' = NoResp
    /\ UNCHANGED << k, system_prompt, client, storage_context, index,
                    query_engine >>

\* Lines 237-257: the engine answers and the Output is assembled.
QueryAnswers ==
    /\ ~NotLoaded(index)
    /\ \E r \in Responses :
         /\ resp' = r
         /\ call' = [op |-> "query", query_str |-> Chars("q"),
                     engine |-> EngineOf(query_engine, index, k)]
         /\ output' = Some([query |-> Chars("q"),
                            response |-> ResponseText(r),
                            citations |-> Citations(r, k)])
    /\ raised' = None
    /\ UNCHANGED << k, system_prompt, client, storage_context, index,
                    query_engine >>

\* Line 243: engine.query raises (retrieval or synthesis fails).
QueryEngineFails ==
    /\ ~NotLoaded(index)
    /\ call' = [op |-> "query", query_str |-> Chars("q"),
                engine |-> EngineOf(query_engine, index, k)]
    /\ raised' = Some("CollaboratorError")
    /\ output' = None
    /\ resp' = NoResp
    /\ UNCHANGED << k, system_prompt, client, storage_context, index,
                    query_engine >>

\* Lines 169-175: a fresh service, with top-k from 0 to MaxK and with or
\* without a system prompt.
QInit ==
    /\ k \in 0..MaxK
    /\ system_prompt \in { None, Some(Chars("p")) }
    /\ client = None
    /\ storage_context = None
    /\ index = None
    /\ query_engine = None
    /\ call = NoCall
    /\ raised = None
    /\ resp = NoResp
    /\ output = None

\* ------------------------------------------------------- specifications

\* No document is being segmented.
DIdle ==
    /\ md_text = <<>>
    /\ content_text = <<>>
    /\ lines = <<>>
    /\ idx = 1
    /\ current_title_prefix = None
    /\ current_title_text = None
    /\ current_section_number = None
    /\ current_section_title = None
    /\ current_lines = <<>>
    /\ docs = <<>>
    /\ pc = "idle"

\* No service is in use.
QIdle ==
    /\ k = 0
    /\ system_prompt = None
    /\ client = None
    /\ storage_context = None
    /\ index = None
    /\ query_engine = None
    /\ call = NoCall
    /\ raised = None
    /\ resp = NoResp
    /\ output = None

Init == DInit /\ QIdle /\ returned = <<>>

Next ==
    \/ ReturnEmpty /\ UNCHANGED << qvars, returned >>
    \/ Preprocess /\ UNCHANGED << qvars, returned >>
    \/ ScanHeading /\ UNCHANGED << qvars, returned >>
    \/ ScanNumbered /\ UNCHANGED << qvars, returned >>
    \/ ScanOther /\ UNCHANGED << qvars, returned >>
    \/ EndOfStream /\ UNCHANGED << qvars, returned >>
    \/ Fallback /\ UNCHANGED << qvars, returned >>

\* One run of DocumentService.create_documents.
Spec == Init /\ [][Next]_vars

QSInit == QInit /\ DIdle /\ returned = <<>>

QSNext ==
    \/ Connect /\ UNCHANGED << dvars, returned >>
    \/ LoadNotConnected /\ UNCHANGED << dvars, returned >>
    \/ LoadEmpty /\ UNCHANGED << dvars, returned >>
    \/ LoadBuild /\ UNCHANGED << dvars, returned >>
    \/ LoadIndexFails /\ UNCHANGED << dvars, returned >>
    \/ LoadEngineFails /\ UNCHANGED << dvars, returned >>
    \/ QueryNotLoaded /\ UNCHANGED << dvars, returned >>
    \/ QueryAnswers /\ UNCHANGED << dvars, returned >>
    \/ QueryEngineFails /\ UNCHANGED << dvars, returned >>

\* Any sequence of connect, load and query calls on one QdrantService.
QSpec == QSInit /\ [][QSNext]_vars

\* create_documents is called again on the same document (every request of
\* main.py makes a DocumentService and calls it): the value of the call
\* before is kept for comparison, the text read is the same.
CallAgain ==
    /\ pc = "done"
    /\ Len(returned) < MaxCalls - 1
    /\ returned' = Append(returned, docs)
    /\ pc' = "start"
    /\ UNCHANGED << md_text, content_text, lines, idx, current_title_prefix,
                    current_title_text, current_section_number,
                    current_section_title, current_lines, docs >>

RInit ==
    /\ md_text \in CallInputs
    /\ content_text = <<>>
    /\ lines = <<>>
    /\ idx = 1
    /\ current_title_prefix = None
    /\ current_title_text = None
    /\ current_section_number = None
    /\ current_section_title = None
    /\ current_lines = <<>>
    /\ docs = <<>>
    /\ pc = "start"
    /\ QIdle
    /\ returned = <<>>

RNext ==
    \/ ReturnEmpty /\ UNCHANGED << qvars, returned >>
    \/ Preprocess /\ UNCHANGED << qvars, returned >>
    \/ ScanHeading /\ UNCHANGED << qvars, returned >>
    \/ ScanNumbered /\ UNCHANGED << qvars, returned >>
    \/ ScanOther /\ UNCHANGED << qvars, returned >>
    \/ EndOfStream /\ UNCHANGED << qvars, returned >>
    \/ Fallback /\ UNCHANGED << qvars, returned >>
    \/ CallAgain /\ UNCHANGED qvars

\* Up to MaxCalls runs of create_documents on one document.
RSpec == RInit /\ [][RNext]_vars

\* main.py line 27: QdrantService(k=3)
EndpointK == 3

\* The default of the parameter system_prompt of QdrantService.__init__.
DefaultSystemPrompt ==
    Chars("Make sure to answer the question based on the context provided.")
        \o Chars(" If you don't know the answer, say so.")

\* main.py lines 25-27: a request starts with the segmenter at its start and
\* a fresh QdrantService with k = 3 and the default system prompt.
EInit ==
    /\ md_text \in CallInputs
    /\ content_text = <<>>
    /\ lines = <<>>
    /\ idx = 1
    /\ current_title_prefix = None
    /\ current_title_text = None
    /\ current_section_number = None
    /\ current_section_title = None
    /\ current_lines = <<>>
    /\ docs = <<>>
    /\ pc = "start"
    /\ k = EndpointK
    /\ system_prompt = Some(DefaultSystemPrompt)
    /\ client = None
    /\ storage_context = None
    /\ index = None
    /\ query_engine = None
    /\ call = NoCall
    /\ raised = None
    /\ resp = NoResp
    /\ output = None
    /\ returned = <<>>

\* main.py line 28: index.connect(), once create_documents has returned.
EndpointConnect ==
    /\ pc = "done"
    /\ call = NoCall
    /\ Connect

\* main.py line 29: index.load(docs), with what create_documents returned.
EndpointLoad ==
    /\ pc = "done"
    /\ call.op = "connect"
    /\ \/ LoadEmptyOf(docs)
       \/ LoadBuildOf(docs)
       \/ LoadIndexFailsOf(docs)
       \/ LoadEngineFailsOf(docs)

\* main.py line 30: index.query(body.query), if load has returned.
EndpointQuery ==
    /\ pc = "done"
    /\ call.op = "load"
    /\ raised = None
    /\ \/ QueryNotLoaded
       \/ QueryAnswers
       \/ QueryEngineFails

ENext ==
    \/ ReturnEmpty /\ UNCHANGED << qvars, returned >>
    \/ Preprocess /\ UNCHANGED << qvars, returned >>
    \/ ScanHeading /\ UNCHANGED << qvars, returned >>
    \/ ScanNumbered /\ UNCHANGED << qvars, returned >>
    \/ ScanOther /\ UNCHANGED << qvars, returned >>
    \/ EndOfStream /\ UNCHANGED << qvars, returned >>
    \/ Fallback /\ UNCHANGED << qvars, returned >>
    \/ EndpointConnect /\ UNCHANGED << dvars, returned >>
    \/ EndpointLoad /\ UNCHANGED << dvars, returned >>
    \/ EndpointQuery /\ UNCHANGED << dvars, returned >>

\* One request of query_endpoint (main.py lines 25-31).
ESpec == EInit /\ [][ENext]_vars

\* ------------------------------------------------- reading of the claims

\* The class of a line (spec 4.1), Heading tried before NumberedContent.
Kind(line) ==
    IF IsHeadingLine(line) THEN "Heading"
    ELSE IF IsNumberedLine(line) THEN "NumberedContent"
    ELSE "Other"

\* The dotted number a NumberedContent line starts with.
NumberOf(line) == SubSeq(line, 1, DottedNumberEnd(line, 1))

\* What follows the number and its period on a NumberedContent line.
TrailingText(line) == SubSeq(line, DottedNumberEnd(line, 1) + 2, Len(line))

\* The first line after j that is a Heading or a NumberedContent line, the
\* end of the stream when there is none.
NextBoundary(ls, j) ==
    IF \E m \in (j + 1)..Len(ls) : Kind(ls[m]) # "Other"
    THEN CHOOSE m \in (j + 1)..Len(ls) :
            /\ Kind(ls[m]) # "Other"
            /\ \A n \in (j + 1)..(m - 1) : Kind(ls[n]) = "Other"
    ELSE Len(ls) + 1

\* The body the spec gives the section opened by line j.
RefBody(ls, j) ==
    Strip(JoinNL(<<RStrip(TrailingText(ls[j]))>>
                 \o [m \in 1..(NextBoundary(ls, j) - j - 1) |-> RStrip(ls[j + m])]))

\* The lines that open a section the spec has emitted: NumberedContent lines
\* with a body that is not empty.
EmittingLines(ls) ==
    {j \in 1..Len(ls) : Kind(ls[j]) = "NumberedContent" /\ RefBody(ls, j) # <<>>}

RECURSIVE Ascending(_)
\* The members of a set of numbers, smallest first.
Ascending(S) ==
    IF S = {} THEN <<>>
    ELSE LET m == CHOOSE x \in S : \A y \in S : x <= y
         IN  <<m>> \o Ascending(S \ {m})

RECURSIVE Components(_)
\* The components of a dotted number: its text split at the periods.
Components(n) ==
    IF \E p \in 1..Len(n) : n[p] = "."
    THEN LET p == CHOOSE p \in 1..Len(n) :
                    n[p] = "." /\ \A q \in 1..(p - 1) : n[q] # "."
         IN  <<SubSeq(n, 1, p - 1)>> \o Components(SubSeq(n, p + 1, Len(n)))
    ELSE <<n>>

\* Number n is the prefix itself or a dotted descendant of it.
IsDottedDescendant(n, prefix) ==
    /\ Len(Components(prefix)) <= Len(Components(n))
    /\ SubSeq(Components(n), 1, Len(Components(prefix))) = Components(prefix)

HasHeadingLine == \E j \in 1..Len(lines) : Kind(lines[j]) = "Heading"
HasNumberedLine == \E j \in 1..Len(lines) : Kind(lines[j]) = "NumberedContent"
HasOtherLine == \E j \in 1..Len(lines) : Kind(lines[j]) = "Other"

\* The document is the fallback document: it has no Title.
IsFallbackShaped(d) == DOMAIN d.metadata = {"Section"}

\* ------------------------------------------------------------------ C1

\* C1: whenever the preprocessed stream (content_text, the text kept after
\* the Citations cut) is non-empty after trimming, create_documents returns
\* at least one Section.
C1_AtLeastOneSection ==
    (pc = "done" /\ Strip(content_text) # <<>>) => Len(docs) >= 1

\* A run over a Heading, a NumberedContent and an Other line has returned.
C1_Witness ==
    /\ pc = "done"
    /\ Strip(content_text) # <<>>
    /\ HasHeadingLine /\ HasNumberedLine /\ HasOtherLine
    /\ Len(docs) >= 1

\* ------------------------------------------------------------------ C2

\* The text is not empty and neither starts nor ends with white space.
IsTrimmedNonEmpty(b) == b # <<>> /\ ~IsSpace(b[1]) /\ ~IsSpace(b[Len(b)])

\* Every character of the accumulated lines is white space.
AccumulatedBlank ==
    \A j \in 1..Len(current_lines) :
        \A p \in 1..Len(current_lines[j]) : IsSpace(current_lines[j][p])

\* The next step of the scan finalizes the open section.
AboutToFinalize ==
    /\ pc = "scan"
    /\ current_section_number # None
    /\ (idx > Len(lines) \/ Kind(lines[idx]) # "Other")

\* C2: every emitted Section, the fallback Section included, has a body that
\* is not empty and has no leading or trailing white space; finalizing a
\* section whose accumulated lines are blank emits nothing and clears the
\* open-section state (a numbered line then opens its own section with at
\* most its own first line).
C2_NoEmptyBody ==
    /\ [](\A i \in 1..Len(docs) : IsTrimmedNonEmpty(docs[i].text))
    /\ [][(AboutToFinalize /\ AccumulatedBlank) =>
            /\ docs' = docs
            /\ (idx > Len(lines) \/ Kind(lines[idx]) = "Heading") =>
                  /\ current_section_number' = None
                  /\ current_section_title' = None
                  /\ current_lines' = <<>>
            /\ (idx <= Len(lines) /\ Kind(lines[idx]) = "NumberedContent") =>
                  /\ current_section_number' = Some(NumberOf(lines[idx]))
                  /\ Len(current_lines') <= 1]_vars

\* Two numbered lines were scanned, one Section was emitted by the scan: the
\* other one had an empty body.
C2_Witness ==
    /\ pc = "done"
    /\ Cardinality({j \in 1..Len(lines) : Kind(lines[j]) = "NumberedContent"}) = 2
    /\ Len(docs) = 1
    /\ ~IsFallbackShaped(docs[1])

\* ------------------------------------------------------------------ C3

\* C3: an open section has the current heading's title exactly when a
\* heading context exists and the section's number is the heading's prefix
\* or a dotted descendant of it, and no title otherwise; under the prefix
\* 4.1, sections 4.1 and 4.1.2 have the title, 4.2 and 4.10 have none.
C3_TitleInheritance ==
    /\ current_section_number # None =>
         current_section_title =
           IF /\ current_title_prefix # None
              /\ IsDottedDescendant(current_section_number[1], current_title_prefix[1])
           THEN current_title_text
           ELSE None
    /\ (/\ current_title_prefix = Some(Chars("4.1"))
        /\ current_section_number \in {Some(Chars("4.1")), Some(Chars("4.1.2"))})
         => (current_section_title = current_title_text /\ current_title_text # None)
    /\ (/\ current_title_prefix = Some(Chars("4.1"))
        /\ current_section_number \in {Some(Chars("4.2")), Some(Chars("4.10"))})
         => current_section_title = None

\* Section 4.10 is open under the heading 4.1 "T" and has no title.
C3_Witness ==
    /\ current_title_prefix = Some(Chars("4.1"))
    /\ current_title_text = Some(Chars("T"))
    /\ current_section_number = Some(Chars("4.10"))
    /\ current_section_title = None

\* ------------------------------------------------------------------ C4

\* The pattern of line 84 matches somewhere in the text.
HasMarker(t) ==
    LET low == LowerAll(t)
    IN  \E p \in 1..Len(low) : MarkerAt(low, p)

\* The first position of the text at which the pattern matches.
FirstMarker(t) ==
    LET low == LowerAll(t)
    IN  CHOOSE p \in 1..Len(low) :
            /\ MarkerAt(low, p)
            /\ \A q \in 1..(p - 1) : ~MarkerAt(low, q)

\* The first line of the text that holds the marker.
MarkerLine(t) ==
    LET ls == SplitLines(t)
    IN  CHOOSE j \in 1..Len(ls) :
            /\ HasMarker(ls[j])
            /\ \A i \in 1..(j - 1) : ~HasMarker(ls[i])

\* The lines of the text before its marker line.
LinesBeforeMarker(t) == SubSeq(SplitLines(t), 1, MarkerLine(t) - 1)

\* C4 as stated: with a marker in the input, the marker line and the lines
\* after it are discarded whole, so the Sections returned are those of the
\* lines before the marker line alone.
C4_MarkerLineDiscarded ==
    (pc = "done" /\ HasMarker(md_text)) =>
        docs = Segment(JoinNL(LinesBeforeMarker(md_text)))

\* C4 as amended: the first occurrence of the marker and every character
\* after it are discarded, and the text that precedes the marker on its own
\* line is kept: the stream holds no marker, its lines are the lines before
\* the marker line followed by what precedes the marker on that line, and
\* the Sections returned are those of the input up to the marker.
C4_MarkerAndRestDiscarded ==
    (pc = "done" /\ HasMarker(md_text)) =>
        LET m == FirstMarker(md_text)
            ml == MarkerLine(md_text)
        IN  /\ ~HasMarker(content_text)
            /\ content_text \o SubSeq(md_text, m, Len(md_text)) = md_text
            /\ SubSeq(lines, 1, ml - 1) = LinesBeforeMarker(md_text)
            /\ Len(lines) <= ml
            /\ docs = Segment(SubSeq(md_text, 1, m - 1))

\* The marker follows the start of a numbered line, and that start has
\* opened Section 9.
C4_Witness ==
    /\ pc = "done"
    /\ HasMarker(md_text)
    /\ \E i \in 1..Len(docs) : docs[i].metadata.Section = Chars("Law 9")

\* ------------------------------------------------------------------ C5

\* getattr(node, "text", "") of the node of a retrieval result
ResultText(sn) ==
    LET node == IF "node" \in DOMAIN sn THEN sn.node ELSE sn
    IN  IF "text" \in DOMAIN node THEN node.text ELSE <<>>

MinOf(a, b) == IF a <= b THEN a ELSE b

\* C5: a query that returns has min(k, n) citations for the n results of the
\* engine, the i-th built from the i-th result, with its text as it is.
C5_FirstKInOrder ==
    output # None =>
        LET cs == output[1].citations
            ns == SourceNodes(resp)
        IN  /\ Len(cs) = MinOf(k, Len(ns))
            /\ \A i \in 1..Len(cs) :
                  /\ cs[i].text = ResultText(ns[i])
                  /\ cs[i] = CitationOf(ns[i])

\* Two different results, top-k 1: one citation, of the first.
C5_Witness ==
    /\ output # None
    /\ k = 1
    /\ Len(SourceNodes(resp)) = 2
    /\ SourceNodes(resp)[1] # SourceNodes(resp)[2]
    /\ Len(output[1].citations) = 1

\* ------------------------------------------------------------------ C6

\* The metadata of a retrieval result, an empty dictionary when it has none.
ResultMetadata(sn) ==
    LET node == IF "node" \in DOMAIN sn THEN sn.node ELSE sn
    IN  IF "metadata" \in DOMAIN node /\ node.metadata # None
        THEN node.metadata[1] ELSE EmptyDict

\* The source the spec gives a result: its Section label, else a label of
\* its page number, whatever the number, else "Unknown".
RefSource(sn) ==
    IF "Section" \in DOMAIN ResultMetadata(sn) THEN ResultMetadata(sn)["Section"]
    ELSE IF "page" \in DOMAIN ResultMetadata(sn)
         THEN Chars("Page ") \o Str(ResultMetadata(sn)["page"])
         ELSE Chars("Unknown")

\* C6: the source of every citation is the Section label of its result if it
\* has one, else a label of its page number (every page number, 0 too), else
\* "Unknown".
C6_SourceLabel ==
    output # None =>
        \A i \in 1..Len(output[1].citations) :
            output[1].citations[i].source = RefSource(SourceNodes(resp)[i])

\* ------------------------------------------------------------------ C7

\* C7: a query on a service with no index raises RuntimeError and returns
\* nothing; an Output is returned only by a query on a service that has an
\* index; and an index comes only from a load of a non-empty document list on
\* a connected service.
C7_QueryNeedsIndex ==
    /\ []((call.op = "query" /\ index = None) =>
             (raised = Some("RuntimeError") /\ output = None))
    /\ [](output # None => (call.op = "query" /\ index # None /\ raised = None))
    /\ [](index # None => (storage_context # None /\ index[1] # <<>>))
    /\ [][index' # index =>
            /\ storage_context # None
            /\ call'.op = "load"
            /\ call'.docs # <<>>
            /\ index' = Some(call'.docs)]_vars

\* A query was made after connect and before any load, and raised.
C7_Witness ==
    /\ call.op = "query"
    /\ storage_context # None
    /\ index = None
    /\ raised = Some("RuntimeError")
    /\ output = None

\* ------------------------------------------------------------------ C8

\* The Sections of the spec for a scanned stream: label and body of every
\* emitting line, in the order of the lines.
RefSections(ls) ==
    LET E == Ascending(EmittingLines(ls))
    IN  [i \in 1..Len(E) |->
            [Section |-> LawLabel(NumberOf(ls[E[i]])), text |-> RefBody(ls, E[i])]]

\* The labels and bodies of the documents.
LabelsAndBodies(ds) ==
    [i \in 1..Len(ds) |-> [Section |-> ds[i].metadata.Section, text |-> ds[i].text]]

\* C8: the body of a scanned Section is the trailing text of its numbered
\* line and the Other lines up to the next Heading or NumberedContent line or
\* the end of the stream, each right-trimmed, joined by line breaks, trimmed
\* as a whole; Scenario A gives its two Sections.
C8_BodyOfSection ==
    /\ (pc \in {"fallback", "done"} /\ EmittingLines(lines) # {}) =>
          LabelsAndBodies(docs) = RefSections(lines)
    /\ (pc = "done" /\ md_text = ScenarioA) =>
          docs = << SectionDoc(Chars("4.1.1"), Some(Chars("Trials of the Crown")),
                          JoinNL(<< Chars("A trial is convened by the Crown."),
                                    Chars("continued detail.") >>)),
                    SectionDoc(Chars("4.1.2"), Some(Chars("Trials of the Crown")),
                               Chars("The accused may call one witness.")) >>

\* A Section with a body of two continuation lines after its own text.
C8_Witness ==
    /\ pc = "done"
    /\ Len(lines) = 3
    /\ Kind(lines[1]) = "NumberedContent"
    /\ Kind(lines[2]) = "Other" /\ lines[2] # <<>>
    /\ Kind(lines[3]) = "Other" /\ lines[3] # <<>>
    /\ Len(docs) = 1
    /\ \E p \in 1..Len(docs[1].text) : docs[1].text[p] = NL

\* ------------------------------------------------------------------ C9

\* Prefix and title of a Heading line, as the scan reads them.
HeadingPrefix(line) == heading_re(Strip(line))[1].g1
HeadingTitle(line) == OrNone(Some(Strip(heading_re(Strip(line))[1].g2)))

\* The Heading lines before line j.
HeadingsBefore(ls, j) == {h \in 1..(j - 1) : Kind(ls[h]) = "Heading"}

\* The largest member of a non-empty set of numbers.
MaxOf(S) == CHOOSE x \in S : \A y \in S : y <= x

\* The title of the nearest heading before line j whose prefix matches the
\* number of line j; None without such a heading.
TitleNearestMatching(ls, j) ==
    LET M == {h \in HeadingsBefore(ls, j) :
                IsDottedDescendant(NumberOf(ls[j]), HeadingPrefix(ls[h]))}
    IN  IF M = {} THEN None ELSE HeadingTitle(ls[MaxOf(M)])

\* The title of the last heading before line j if its prefix matches the
\* number of line j; None otherwise.
TitleLastHeading(ls, j) ==
    LET H == HeadingsBefore(ls, j)
    IN  IF H = {} THEN None
        ELSE IF IsDottedDescendant(NumberOf(ls[j]), HeadingPrefix(ls[MaxOf(H)]))
             THEN HeadingTitle(ls[MaxOf(H)])
             ELSE None

\* The titles of the documents.
Titles(ds) == [i \in 1..Len(ds) |-> ds[i].metadata.Title]

\* C9 as stated: a scanned Section carries the title of the nearest preceding
\* heading whose prefix matches its number, also when a later heading that
\* does not match lies in between.
C9_NearestMatchingHeading ==
    (pc \in {"fallback", "done"} /\ EmittingLines(lines) # {}) =>
        LET E == Ascending(EmittingLines(lines))
        IN  Titles(docs) = [i \in 1..Len(E) |-> TitleNearestMatching(lines, E[i])]

\* C9 as amended: a scanned Section carries the title of the last heading
\* before its numbered line if that heading's prefix matches its number
\* (equal, or a dotted ancestor) and that title is not empty, and no title
\* otherwise, also when an earlier heading matches.
C9_LastHeadingOnly ==
    (pc \in {"fallback", "done"} /\ EmittingLines(lines) # {}) =>
        LET E == Ascending(EmittingLines(lines))
        IN  Titles(docs) = [i \in 1..Len(E) |-> TitleLastHeading(lines, E[i])]

\* Section 4.1.2 after the heading 4.1 and then the heading 5: no title.
C9_Witness ==
    /\ pc = "done"
    /\ Len(lines) = 3
    /\ Kind(lines[1]) = "Heading" /\ HeadingPrefix(lines[1]) = Chars("4.1")
    /\ HeadingTitle(lines[1]) # None
    /\ Kind(lines[2]) = "Heading" /\ HeadingPrefix(lines[2]) = Chars("5")
    /\ Kind(lines[3]) = "NumberedContent" /\ NumberOf(lines[3]) = Chars("4.1.2")
    /\ Len(docs) = 1
    /\ docs[1].metadata.Title = None

\* ----------------------------------------------------------------- C10

\* C10: when the scan emits nothing and the stream is not empty after
\* trimming, the result is the one fallback Section, labelled with the
\* number 1, without title, its body the trimmed stream; when the scan emits
\* Sections, the result is those and holds no fallback Section.
C10_FallbackAlone ==
    /\ (pc = "done" /\ md_text # <<>>
          /\ EmittingLines(lines) = {} /\ Strip(content_text) # <<>>) =>
          docs = << [metadata |-> [Section |-> Chars("Law 1")],
                     text |-> Strip(content_text)] >>
    /\ (pc = "done" /\ EmittingLines(lines) # {}) =>
          /\ Len(docs) = Cardinality(EmittingLines(lines))
          /\ \A i \in 1..Len(docs) : ~IsFallbackShaped(docs[i])
    /\ (pc = "done" /\ md_text = ScenarioD) =>
          docs = << [metadata |-> [Section |-> Chars("Law 1")], text |-> ScenarioD] >>

\* A stream with a numbered line and white space around it, whose only
\* section had an empty body: the fallback Section alone.
C10_Witness ==
    /\ pc = "done"
    /\ HasNumberedLine
    /\ content_text # Strip(content_text)
    /\ Len(docs) = 1
    /\ IsFallbackShaped(docs[1])

\* ----------------------------------------------------------------- C11

\* The Section labels of the documents.
SectionLabels(ds) == [i \in 1..Len(ds) |-> ds[i].metadata.Section]

\* The last line whose finalization has happened: the line before the loop's
\* position during the scan, the end of the stream after it.
ClosedBy == IF pc = "scan" THEN idx - 1 ELSE Len(lines) + 1

\* The emitting lines whose section has met its boundary, first line first.
EmittedSoFar ==
    Ascending({j \in EmittingLines(lines) : NextBoundary(lines, j) <= ClosedBy})

\* C11: the Sections are in the order of their NumberedContent lines in the
\* stream, at every moment of the scan and in the result, whatever the
\* numeric order of their numbers (4.2 before 4.1 in the stream gives
\* Sections 4.2 then 4.1); and every step keeps the Sections emitted so far,
\* in place, adding at the end only.
C11_AppearanceOrder ==
    /\ []((pc \in {"scan", "fallback"}
              \/ (pc = "done" /\ EmittingLines(lines) # {})) =>
            SectionLabels(docs) =
              [i \in 1..Len(EmittedSoFar) |->
                  LawLabel(NumberOf(lines[EmittedSoFar[i]]))])
    /\ []((pc = "done" /\ lines = <<Chars("4.2. c"), Chars("4.1. b ")>>) =>
            SectionLabels(docs) = <<Chars("Law 4.2"), Chars("Law 4.1")>>)
    /\ [][/\ Len(docs) <= Len(docs')
          /\ SubSeq(docs', 1, Len(docs)) = docs]_vars

\* Section 4.2 was emitted before Section 4.1.2, as their lines stand.
C11_Witness ==
    /\ pc = "done"
    /\ SectionLabels(docs) = <<Chars("Law 4.2"), Chars("Law 4.1.2")>>

\* ----------------------------------------------------------------- C12

\* C12: a run on an empty text, on a text of white space alone, or on a text
\* whose stream is empty after trimming (the Citations marker is its first
\* text that is no white space) returns no Section, and ends in no error:
\* the scan of such a stream opens no section, emits nothing, and goes on to
\* the return.
C12_EmptyInput ==
    /\ (pc = "done" /\ md_text = <<>>) => docs = <<>>
    /\ (pc = "done" /\ Strip(md_text) = <<>>) => docs = <<>>
    /\ (pc = "done" /\ Strip(content_text) = <<>>) => docs = <<>>
    /\ (pc \in {"scan", "fallback"} /\ Strip(content_text) = <<>>) =>
          /\ docs = <<>>
          /\ current_section_number = None
          /\ current_lines = <<>>
          /\ idx \in 1..(Len(lines) + 1)

\* The marker came after white space alone: the stream was not empty, it was
\* empty after trimming, and nothing was returned.
C12_Witness ==
    /\ pc = "done"
    /\ HasMarker(md_text)
    /\ content_text # <<>>
    /\ Strip(content_text) = <<>>
    /\ docs = <<>>

\* ----------------------------------------------------------------- C13

\* C13: two runs of create_documents on the same text return the same
\* Sections (as many, and the same number, title and body at every
\* position), and each run starts its scan from the fresh state: nothing of
\* the run before is left in it.
C13_SameInputSameSections ==
    /\ pc = "done" =>
          \A r \in 1..Len(returned) :
              /\ Len(returned[r]) = Len(docs)
              /\ \A i \in 1..Len(docs) :
                    /\ returned[r][i].metadata = docs[i].metadata
                    /\ returned[r][i].text = docs[i].text
    /\ (pc = "scan" /\ idx = 1) => Locals = InitialLocals

\* The second run has returned two Sections, after a first run that had.
C13_Witness ==
    /\ pc = "done"
    /\ Len(returned) = 1
    /\ Len(returned[1]) = 2
    /\ Len(docs) = 2

\* ----------------------------------------------------------------- C14

\* The loop is at a line of the given class.
ScanningA(kind) == pc = "scan" /\ idx <= Len(lines) /\ Kind(lines[idx]) = kind

\* C14: the step over a Heading line finalizes the open section (emitting it
\* if its body is not empty), leaves no section open and nothing
\* accumulated, sets the heading context to the line's prefix and title, and
\* emits nothing for the heading; the step over an Other line outside an
\* open section changes nothing of the scan; nothing is accumulated while no
\* section is open.  When the scan emits a Section, no body has more lines
\* than its numbered line and the Other lines up to the next boundary, so the
\* Other lines after a Heading or before the first NumberedContent line, and
\* the headings' text, are in no body: a heading and an Other line around
\* the line "4.2. c" leave the one Section 4.2 with the body "c".
C14_HeadingOpensNothing ==
    /\ [][ScanningA("Heading") =>
            /\ current_section_number' = None
            /\ current_section_title' = None
            /\ current_lines' = <<>>
            /\ current_title_prefix' = Some(HeadingPrefix(lines[idx]))
            /\ current_title_text' =
                  Some(Strip(heading_re(Strip(lines[idx]))[1].g2))
            /\ docs' = IF current_section_number # None
                          /\ BodyText(current_lines) # <<>>
                       THEN Append(docs, SectionDoc(current_section_number[1],
                                                    current_section_title,
                                                    BodyText(current_lines)))
                       ELSE docs]_vars
    /\ [][(ScanningA("Other") /\ current_section_number = None) =>
            UNCHANGED << current_title_prefix, current_title_text,
                         current_section_number, current_section_title,
                         current_lines, docs >>]_vars
    /\ [](current_section_number = None => current_lines = <<>>)
    /\ []((pc \in {"fallback", "done"} /\ EmittingLines(lines) # {}) =>
            LET E == Ascending(EmittingLines(lines))
            IN  /\ Len(docs) = Len(E)
                /\ \A i \in 1..Len(E) :
                      Len(SplitLines(docs[i].text))
                          <= NextBoundary(lines, E[i]) - E[i])
    /\ []((pc = "done"
              /\ lines \in { << Chars("**4.1.** **T**"), Chars(" x "), Chars("4.2. c") >>,
                              << Chars("4.2. c"), Chars("**5.** **U**"), Chars(" x ") >> })
            => docs = << SectionDoc(Chars("4.2"), None, Chars("c")) >>)

\* Section 4.2 was closed by a heading that an Other line followed: the
\* result is that Section alone, without the heading and without the line.
C14_Witness ==
    /\ pc = "done"
    /\ lines = << Chars("4.2. c"), Chars("**5.** **U**"), Chars(" x ") >>
    /\ current_title_prefix = Some(Chars("5"))
    /\ docs = << SectionDoc(Chars("4.2"), None, Chars("c")) >>

\* ----------------------------------------------------------------- C15

\* The line is a number and its period in strong emphasis followed by an
\* empty pair of strong-emphasis markers.
HasEmptyTitle(line) ==
    LET t == Strip(line)
        e == DottedNumberEnd(t, 3)
    IN  /\ StartsWith(t, <<"*", "*">>)
        /\ e >= 3
        /\ StartsWithAt(t, e + 1, <<".", "*", "*">>)
        /\ SpaceRun(t, e + 4) >= 1
        /\ SubSeq(t, e + 4 + SpaceRun(t, e + 4), Len(t)) = <<"*", "*", "*", "*">>

\* C15: a line is a Heading only if the title between its second pair of
\* strong-emphasis markers is not empty; the step over a line with an empty
\* pair, as "**4.1.** ****", finalizes no section and leaves the heading
\* context as it was.
C15_EmptyTitleNoHeading ==
    /\ [](\A j \in 1..Len(lines) :
            Kind(lines[j]) = "Heading" =>
                /\ ~HasEmptyTitle(lines[j])
                /\ heading_re(Strip(lines[j]))[1].g2 # <<>>)
    /\ [][(pc = "scan" /\ idx <= Len(lines) /\ HasEmptyTitle(lines[idx])) =>
            /\ UNCHANGED << current_title_prefix, current_title_text, docs >>
            /\ current_section_number' = current_section_number]_vars

\* ----------------------------------------------------------------- C16

\* C16: in a request whose document segments to no Section, load returns
\* without an index or an engine, and the query that follows raises
\* RuntimeError: the request returns no Output.
C16_EmptyDocumentFails ==
    /\ (pc = "done" /\ docs = <<>> /\ call.op = "load") =>
          (raised = None /\ index = None /\ query_engine = None)
    /\ (pc = "done" /\ docs = <<>> /\ call.op = "query") =>
          (raised = Some("RuntimeError") /\ index = None)
    /\ docs = <<>> => output = None

\* A text that is not empty gave no Section, and the query of the request
\* has raised.
C16_Witness ==
    /\ pc = "done"
    /\ md_text # <<>>
    /\ docs = <<>>
    /\ storage_context # None
    /\ call.op = "query"
    /\ raised = Some("RuntimeError")
    /\ output = None

\* ----------------------------------------------------------------- C17

\* C17: a load on a service that was never connected raises RuntimeError,
\* returns nothing, and leaves index, query_engine and storage_context as
\* they were, whatever the document list and whatever calls came before; so
\* a service that was never connected has no index and no engine.
C17_LoadNeedsConnect ==
    /\ [][(storage_context = None /\ call'.op = "load") =>
            /\ raised' = Some("RuntimeError")
            /\ output' = None
            /\ UNCHANGED << index, query_engine, storage_context >>]_vars
    /\ []((call.op = "load" /\ storage_context = None) =>
            raised = Some("RuntimeError"))
    /\ [](storage_context = None => (index = None /\ query_engine = None))

\* A load of two documents was made before any connect, and raised.
C17_Witness ==
    /\ call.op = "load"
    /\ call.docs = <<DocA, DocB>>
    /\ storage_context = None
    /\ raised = Some("RuntimeError")
    /\ index = None
    /\ query_engine = None

\* ----------------------------------------------------------------- C18

\* C18: a load of an empty list changes nothing of the service, so with an
\* index built by an earlier load the index and the engine stay as they
\* were; and the query that follows it runs on that engine, over the
\* documents of the earlier load, and is not refused.
C18_EmptyLoadKeepsIndex ==
    /\ [][(call'.op = "load" /\ call'.docs = <<>>) =>
            UNCHANGED << k, system_prompt, client, storage_context, index,
                         query_engine >>]_vars
    /\ [][(/\ call.op = "load" /\ call.docs = <<>> /\ raised = None
           /\ index # None /\ query_engine # None
           /\ call'.op = "query") =>
            /\ raised' # Some("RuntimeError")
            /\ call'.engine = query_engine[1]
            /\ call'.engine.index # <<>>
            /\ UNCHANGED << index, query_engine >>]_vars

\* An empty list was loaded on a service that holds the index and the engine
\* of two documents.
C18_Witness ==
    /\ call.op = "load"
    /\ call.docs = <<>>
    /\ raised = None
    /\ index = Some(<<DocA, DocB>>)
    /\ query_engine # None
    /\ query_engine[1].index = <<DocA, DocB>>

====
